---------------------------- MODULE Spec2Model ----------------------------
(***************************************************************************)
(* Model of the Cinder CSI node server (pkg/csi/cinder/nodeserver.go):     *)
(* device resolution from a volume id, the NodePublishVolume /             *)
(* NodeUnpublishVolume handlers running as concurrent RPC calls against    *)
(* the mount provider and the host's mount table, and the staging,         *)
(* identity and capability handlers.                                       *)
(*                                                                         *)
(* Strings whose characters matter (volume ids, device names, paths) are   *)
(* sequences of one-character strings; target paths, file system types     *)
(* and mount flags are opaque strings.                                     *)
(***************************************************************************)
EXTENDS Naturals, Sequences, FiniteSets

VARIABLES
    dir,          \* names of the entries of /dev/disk/by-id/
    dirReadable,  \* FALSE: ioutil.ReadDir fails
    mounted,      \* target path -> device mounted there (NotMounted if none)
    crashed,      \* the process died of an unrecovered panic
    pc,           \* per call slot: position in the handler
    req,          \* per call slot: the request being served
    devicePath,   \* per call slot: local devicePath of NodePublishVolume
    notMnt,       \* per call slot: local notMnt of the handler
    log,          \* per call slot: collaborator operations invoked by the call, in order
    result,       \* per call slot: the error the handler returns (Nil: success)
    resp,         \* per call slot: the fields of the response message the handler returns
    history       \* what a caller that keeps a record has got back, call by call

vars == <<dir, dirReadable, mounted, crashed,
          pc, req, devicePath, notMnt, log, result, resp, history>>

-----------------------------------------------------------------------------
(* Bounds of the model.                                                    *)

\* number of RPC calls the dispatcher runs concurrently (ConcSpec, DisjointSpec)
NumThreads == 2
\* longest sequence of caller-supplied mount flags
MaxFlags == 2

-----------------------------------------------------------------------------
(* Strings.                                                                *)

\* the characters used, in byte order
AsciiOrder ==
    <<"-", "/", "0", "1", "2", "3", "4", "5", "6", "7", "8", "9", "A",
      "B", "C", "D", "E", "F", "G", "H", "I", "J", "K", "L", "M", "N",
      "O", "P", "Q", "R", "S", "T", "U", "V", "W", "X", "Y", "Z", "_",
      "a", "b", "c", "d", "e", "f", "g", "h", "i", "j", "k", "l", "m",
      "n", "o", "p", "q", "r", "s", "t", "u", "v", "w", "x", "y", "z">>

Ord(c) == CHOOSE i \in 1..Len(AsciiOrder) : AsciiOrder[i] = c

RECURSIVE StrLess(_, _)
\* Go's < on strings: bytewise lexicographic
StrLess(a, b) ==
    IF b = <<>> THEN FALSE
    ELSE IF a = <<>> THEN TRUE
    ELSE IF Head(a) = Head(b) THEN StrLess(Tail(a), Tail(b))
    ELSE Ord(Head(a)) < Ord(Head(b))

\* s[:n]; the slice panics when n > len(s), which callers test with SliceOk
SliceOk(s, n) == n <= Len(s)
Slice(s, n) == SubSeq(s, 1, n)

\* strings.Replace(s, "-", "", -1)
RemoveHyphens(s) == SelectSeq(s, LAMBDA c : c # "-")

\* path.Join(d, name) for a directory path d and an entry name (no "/" in it):
\* the elements joined by "/" and cleaned, so d's trailing slash is dropped
PathJoin(d, name) ==
    LET base == IF Len(d) > 1 /\ d[Len(d)] = "/" THEN SubSeq(d, 1, Len(d) - 1) ELSE d
    IN  base \o <<"/">> \o name

-----------------------------------------------------------------------------
(* Errors: a Go error is a gRPC status (isStatus, with its code) or a      *)
(* plain error, which a gRPC caller sees with code Unknown.                *)

Nil == [isStatus |-> FALSE, code |-> "OK", msg |-> <<>>]

PlainError(m) == [isStatus |-> FALSE, code |-> "Unknown", msg |-> m]

\* status.Error(c, m)
StatusError(c, m) == [isStatus |-> TRUE, code |-> c, msg |-> m]

\* err.Error(): a status error prints its code and description
ErrorString(e) ==
    IF e.isStatus THEN <<"rpc error: code = ", e.code, " desc = ">> \o e.msg
    ELSE e.msg

\* the value of a panicking call (never returned to the caller)
Panic == [isStatus |-> FALSE, code |-> "PANIC", msg |-> <<"slice bounds out of range">>]

-----------------------------------------------------------------------------
(* Device resolution.                                                      *)

ByIdDir ==
    <<"/", "d", "e", "v", "/", "d", "i", "s", "k", "/", "b", "y",
      "-", "i", "d", "/">>

VirtioPrefix == <<"v", "i", "r", "t", "i", "o", "-">>

ScsiPrefix ==
    <<"s", "c", "s", "i", "-", "0", "Q", "E", "M", "U", "_", "Q",
      "E", "M", "U", "_", "H", "A", "R", "D", "D", "I", "S", "K",
      "_">>

WwnPrefix == <<"w", "w", "n", "-", "0", "x">>

\* the 20 of volumeID[:20]
SerialLen == 20

\* mutant of CandidateDeviceNodes: the WWN name built from the truncated id
\* like the other two
CandidateDeviceNodesAllTruncated(volumeID) ==
    << VirtioPrefix \o Slice(volumeID, SerialLen),
       ScsiPrefix \o Slice(volumeID, SerialLen),
       WwnPrefix \o RemoveHyphens(Slice(volumeID, SerialLen)) >>

\* candidateDeviceNodes, for a volume id the slices do not panic on
CandidateDeviceNodes(volumeID) ==
    << VirtioPrefix \o Slice(volumeID, SerialLen),
       ScsiPrefix \o Slice(volumeID, SerialLen),
       WwnPrefix \o RemoveHyphens(volumeID) >>

RECURSIVE SortedNames(_)
\* the names of a set of entries, sorted by file name
SortedNames(S) ==
    IF S = {} THEN <<>>
    ELSE LET least == CHOOSE x \in S : \A y \in S \ {x} : StrLess(x, y)
         IN  <<least>> \o SortedNames(S \ {least})

\* mutant of ReadDir: the entries come back even when the listing failed
ReadDirDespiteFailure(entries, readable) == SortedNames(entries)

\* files, _ := ioutil.ReadDir("/dev/disk/by-id/"): the entries sorted by file
\* name; on failure the error is dropped and files is empty
ReadDir(entries, readable) == IF readable THEN SortedNames(entries) ELSE <<>>

\* mutant of FirstMatch: a file matches when a candidate is a prefix of its
\* name
FirstMatchByPrefix(files, candidates) ==
    LET hits == {i \in 1..Len(files) :
                    \E j \in 1..Len(candidates) :
                        /\ Len(candidates[j]) <= Len(files[i])
                        /\ SubSeq(files[i], 1, Len(candidates[j])) = candidates[j]}
    IN  IF hits = {} THEN <<>>
        ELSE files[CHOOSE i \in hits : \A k \in hits : i <= k]

\* mutant of FirstMatch: the loops nested the other way round, candidates
\* outside, so the first candidate that has a file wins
FirstMatchByCandidate(files, candidates) ==
    LET hits == {j \in 1..Len(candidates) :
                    \E i \in 1..Len(files) : candidates[j] = files[i]}
    IN  IF hits = {} THEN <<>>
        ELSE candidates[CHOOSE j \in hits : \A k \in hits : j <= k]

\* the nested loops over files (outer) and candidates (inner): the name of
\* the first file equal to some candidate, <<>> when the loops run out
FirstMatch(files, candidates) ==
    LET hits == {i \in 1..Len(files) :
                    \E j \in 1..Len(candidates) : candidates[j] = files[i]}
    IN  IF hits = {} THEN <<>>
        ELSE files[CHOOSE i \in hits : \A k \in hits : i <= k]

DeviceNotFound == StatusError("Internal", <<"Failed to find device by volume ID">>)

\* getDevicePathBySerialID(volumeID) on a directory listing `files`
getDevicePathBySerialID(volumeID, files) ==
    IF ~SliceOk(volumeID, SerialLen)
    THEN [panic |-> TRUE, path |-> <<>>, err |-> Panic]
    ELSE LET name == FirstMatch(files, CandidateDeviceNodes(volumeID))
         IN  IF name # <<>>
             THEN [panic |-> FALSE, path |-> PathJoin(ByIdDir, name), err |-> Nil]
             ELSE [panic |-> FALSE, path |-> <<>>, err |-> DeviceNotFound]

-----------------------------------------------------------------------------
(* Requests and the values they range over.                                *)

NotMounted == <<>>

\* a caller-chosen target path
TargetPath(i) == <<"/var/lib/kubelet/pods", i, "mount">>

UuidTail ==
    <<"c", "2", "a", "1", "f", "0", "e", "-", "9", "d", "8",
      "b", "-", "4", "c", "7", "a", "-", "8", "e", "6", "f", "-",
      "5", "d", "4", "c", "3", "b", "2", "a", "1", "f", "0", "e">>

\* the i-th Cinder volume id (a 36-character UUID), i in 1..9
Volume(i) == <<AsciiOrder[i + 3]>> \o UuidTail

VolA == Volume(1)
VolB == Volume(2)
\* ids at and below the length the slices need
VolExact == Slice(VolA, SerialLen)
VolShort == Slice(VolA, SerialLen - 1)

VolumeIDs == {VolA, VolB, VolExact, VolShort}

FsTypes == {"ext4", "xfs"}

MountFlagNames == {"noatime", "discard"}

FlagSeqs == UNION {[1..n -> MountFlagNames] : n \in 0..MaxFlags}

NoReq ==
    [op |-> "none", volumeID |-> <<>>, targetPath |-> <<>>, fsType |-> "",
     readonly |-> FALSE, mountFlags |-> <<>>]

\* a response message without content (csi.NodePublishVolumeResponse{} and
\* the like), and the fields the other responses set
EmptyResponse == [NodeId |-> "", Capabilities |-> <<>>]

\* csi.NodePublishVolumeRequest, the fields the handler reads
PublishRequests(vols, targets, fsTypes, readonlys, flagSeqs) ==
    {[op |-> "Publish", volumeID |-> v, targetPath |-> tp, fsType |-> fs,
      readonly |-> ro, mountFlags |-> fl] :
        v \in vols, tp \in targets, fs \in fsTypes, ro \in readonlys, fl \in flagSeqs}

\* csi.NodeUnpublishVolumeRequest
UnpublishRequests(targets) ==
    {[NoReq EXCEPT !.op = "Unpublish", !.targetPath = tp] : tp \in targets}

\* csi.NodeStageVolumeRequest and csi.NodeUnstageVolumeRequest: the volume
\* id and the (staging) target path they carry
StageRequests(vols, targets) ==
    {[NoReq EXCEPT !.op = o, !.volumeID = v, !.targetPath = tp] :
        o \in {"Stage", "Unstage"}, v \in vols, tp \in targets}

\* csi.NodeGetIdRequest, csi.NodeGetInfoRequest and
\* csi.NodeGetCapabilitiesRequest, which have no fields
QueryRequests ==
    {[NoReq EXCEPT !.op = o] : o \in {"NodeGetId", "NodeGetInfo", "NodeGetCapabilities"}}

-----------------------------------------------------------------------------
(* The mount provider (package mount) and the host's mount table.          *)

ProviderFailures ==
    {PlainError(<<"exit status 32">>), StatusError("NotFound", <<"no such device">>)}

\* mount.GetMountProvider(): the error it may return
GetMountProvider == {Nil} \cup ProviderFailures

\* m.ScanForAttach(devicePath)
ScanForAttach(dev) == {Nil} \cup ProviderFailures

\* m.IsLikelyNotMountPointAttach(targetPath) on mount table mt
IsLikelyNotMountPointAttach(mt, tp) ==
    {[notMnt |-> mt[tp] = NotMounted, err |-> Nil]}
        \cup {[notMnt |-> TRUE, err |-> e] : e \in ProviderFailures}

\* m.IsLikelyNotMountPointDetach(targetPath) on mount table mt
IsLikelyNotMountPointDetach(mt, tp) ==
    {[notMnt |-> mt[tp] = NotMounted, err |-> Nil]}
        \cup {[notMnt |-> TRUE, err |-> e] : e \in ProviderFailures}

\* m.FormatAndMount(devicePath, targetPath, fsType, options): takes effect iff it succeeds
FormatAndMount(mt, dev, tp, fsType, options) ==
    {[err |-> Nil, mounted |-> [mt EXCEPT ![tp] = dev]]}
        \cup {[err |-> e, mounted |-> mt] : e \in ProviderFailures}

\* m.UnmountPath(targetPath): takes effect iff it succeeds
UnmountPath(mt, tp) ==
    {[err |-> Nil, mounted |-> [mt EXCEPT ![tp] = NotMounted]]}
        \cup {[err |-> e, mounted |-> mt] : e \in ProviderFailures}

\* instance ids the provider may report; the empty one makes the identity
\* queries fall back
InstanceIDs == {"", "0a1b2c3d-instance"}

\* m.GetInstanceID()
GetInstanceID ==
    {[nodeID |-> id, err |-> Nil] : id \in InstanceIDs}
        \cup {[nodeID |-> id, err |-> e] : id \in InstanceIDs, e \in ProviderFailures}

\* the node id the embedded csicommon.DefaultNodeServer answers with
DefaultNodeID == "node-from-driver-flags"

\* ns.DefaultNodeServer.NodeGetId(ctx, req) and
\* ns.DefaultNodeServer.NodeGetInfo(ctx, req): a response and an error
DefaultNodeServer ==
    {[resp |-> [EmptyResponse EXCEPT !.NodeId = DefaultNodeID], err |-> Nil],
     [resp |-> EmptyResponse, err |-> StatusError("Unimplemented", <<>>)]}

\* an entry of a call's log: one collaborator operation, its arguments (for
\* getDevicePathBySerialID: the path it returns), its error, and for the
\* identity operations the id returned
Op(name, dev, tp, fsType, options, err) ==
    [op |-> name, dev |-> dev, target |-> tp, fsType |-> fsType,
     options |-> options, err |-> err, before |-> <<>>, ret |-> ""]

IdentityOp(name, id, err) ==
    [Op(name, <<>>, <<>>, "", <<>>, err) EXCEPT !.ret = id]

\* the log entry of a FormatAndMount or UnmountPath, which also records
\* what was mounted on the target when the operation was invoked
MountOp(mt, name, dev, tp, fsType, options, err) ==
    [Op(name, dev, tp, fsType, options, err) EXCEPT !.before = mt[tp]]

-----------------------------------------------------------------------------
(* The handlers. Each action is one step of a call: the code up to and     *)
(* including one collaborator operation and the branch on its result.      *)

Threads == DOMAIN pc

\* the handler's return: the call ends with error e (Nil: the response)
Finish(t, e) ==
    /\ result' = [result EXCEPT ![t] = e]
    /\ pc' = [pc EXCEPT ![t] = "done"]

Logged(t, entry) == log' = [log EXCEPT ![t] = Append(@, entry)]

\* status.Error(codes.Internal, err.Error())
WrapInternal(err) == StatusError("Internal", ErrorString(err))

\* mutant of VolumeNotMounted: an Unpublish of an unmounted target succeeds
VolumeNotMountedIgnored == Nil

VolumeNotMounted == StatusError("NotFound", <<"Volume not mounted">>)

\* mutant of MountOptions: the readonly flag is not looked at
MountOptionsRw(readonly, mountFlags) == <<"rw">> \o mountFlags

\* the options of NodePublishVolume: "ro" or "rw", then the request's mount flags
MountOptions(readonly, mountFlags) ==
    (IF readonly THEN <<"ro">> ELSE <<"rw">>) \o mountFlags

\* mutant of GetTargetPath: one target path shared by all calls
GetTargetPathShared(t) == TargetPath(1)

\* req.GetTargetPath() of the request call slot t serves
GetTargetPath(t) == req[t].targetPath

\* mutant of ShouldMount: mount whatever the check reported
ShouldMountAlways(nm) == TRUE

\* the test of `if notMnt {` that guards the mount
ShouldMount(nm) == nm

\* where the handler of each RPC starts
EntryPoint ==
    [Publish |-> "resolve", Unpublish |-> "unpublish", Stage |-> "stage",
     Unstage |-> "unstage", NodeGetId |-> "getId", NodeGetInfo |-> "getInfo",
     NodeGetCapabilities |-> "getCapabilities"]

\* the dispatcher hands request r to an idle call slot
Call(t, r) ==
    /\ ~crashed
    /\ pc[t] = "idle"
    /\ r.op \in DOMAIN EntryPoint
    /\ req' = [req EXCEPT ![t] = r]
    /\ pc' = [pc EXCEPT ![t] = EntryPoint[r.op]]
    /\ UNCHANGED <<history, resp, dir, dirReadable, mounted, crashed,
                   devicePath, notMnt, log, result>>

\* NodePublishVolume: devicePath, err := getDevicePathBySerialID(volumeID)
PublishResolve(t) ==
    /\ ~crashed
    /\ pc[t] = "resolve"
    /\ LET r == getDevicePathBySerialID(req[t].volumeID, ReadDir(dir, dirReadable))
       IN  /\ Logged(t, Op("getDevicePathBySerialID", r.path, <<>>, "", <<>>, r.err))
           /\ IF r.panic
              THEN /\ pc' = [pc EXCEPT ![t] = "panicked"]
                   /\ crashed' = TRUE
                   /\ UNCHANGED <<devicePath, result>>
              ELSE IF r.err # Nil
              THEN /\ Finish(t, r.err)
                   /\ UNCHANGED <<devicePath, crashed>>
              ELSE /\ devicePath' = [devicePath EXCEPT ![t] = r.path]
                   /\ pc' = [pc EXCEPT ![t] = "getProvider"]
                   /\ UNCHANGED <<result, crashed>>
    /\ UNCHANGED <<history, resp, dir, dirReadable, mounted, req, notMnt>>

\* NodePublishVolume: m, err := mount.GetMountProvider()
PublishGetMountProvider(t) ==
    /\ ~crashed
    /\ pc[t] = "getProvider"
    /\ \E err \in GetMountProvider :
          /\ Logged(t, Op("GetMountProvider", <<>>, <<>>, "", <<>>, err))
          /\ IF err # Nil
             THEN Finish(t, err)
             ELSE /\ pc' = [pc EXCEPT ![t] = "scan"]
                  /\ UNCHANGED result
    /\ UNCHANGED <<history, resp, dir, dirReadable, mounted, crashed, req, devicePath, notMnt>>

\* mutant of PublishScanForAttach: a failed scan is tried again
PublishScanWithRetry(t) ==
    /\ ~crashed
    /\ pc[t] = "scan"
    /\ \E err \in ScanForAttach(devicePath[t]) :
          /\ Logged(t, Op("ScanForAttach", devicePath[t], <<>>, "", <<>>, err))
          /\ pc' = [pc EXCEPT ![t] = IF err # Nil /\ Len(log[t]) < 4 THEN "scan" ELSE "check"]
    /\ UNCHANGED <<history, resp, dir, dirReadable, mounted, crashed, req, devicePath, notMnt, result>>

\* NodePublishVolume: err = m.ScanForAttach(devicePath)
PublishScanForAttach(t) ==
    /\ ~crashed
    /\ pc[t] = "scan"
    /\ \E err \in ScanForAttach(devicePath[t]) :
          /\ Logged(t, Op("ScanForAttach", devicePath[t], <<>>, "", <<>>, err))
          /\ IF err # Nil
             THEN Finish(t, err)
             ELSE /\ pc' = [pc EXCEPT ![t] = "check"]
                  /\ UNCHANGED result
    /\ UNCHANGED <<history, resp, dir, dirReadable, mounted, crashed, req, devicePath, notMnt>>

\* NodePublishVolume: notMnt, err := m.IsLikelyNotMountPointAttach(targetPath),
\* and the return when the target is already a mount point
PublishIsLikelyNotMountPoint(t) ==
    /\ ~crashed
    /\ pc[t] = "check"
    /\ \E r \in IsLikelyNotMountPointAttach(mounted, GetTargetPath(t)) :
          /\ Logged(t, Op("IsLikelyNotMountPointAttach", <<>>, GetTargetPath(t),
                          "", <<>>, r.err))
          /\ notMnt' = [notMnt EXCEPT ![t] = r.notMnt]
          /\ IF r.err # Nil
             THEN Finish(t, WrapInternal(r.err))
             ELSE IF ShouldMount(r.notMnt)
             THEN /\ pc' = [pc EXCEPT ![t] = "mount"]
                  /\ UNCHANGED result
             ELSE Finish(t, Nil)
    /\ UNCHANGED <<history, resp, dir, dirReadable, mounted, crashed, req, devicePath>>

\* mutant of PublishFormatAndMount: the mount step looks at the mount table
\* again and skips the mount when the target has been mounted meanwhile
PublishMountIfStillUnmounted(t) ==
    /\ ~crashed
    /\ pc[t] = "mount"
    /\ LET tp == GetTargetPath(t)
           options == MountOptions(req[t].readonly, req[t].mountFlags)
       IN  IF mounted[tp] # NotMounted
           THEN Finish(t, Nil) /\ UNCHANGED <<mounted, log>>
           ELSE \E r \in FormatAndMount(mounted, devicePath[t], tp, req[t].fsType, options) :
                  /\ Logged(t, MountOp(mounted, "FormatAndMount", devicePath[t], tp,
                                       req[t].fsType, options, r.err))
                  /\ mounted' = r.mounted
                  /\ Finish(t, IF r.err # Nil THEN WrapInternal(r.err) ELSE Nil)
    /\ UNCHANGED <<history, resp, dir, dirReadable, crashed, req, devicePath, notMnt>>

\* NodePublishVolume: the options and err = m.FormatAndMount(devicePath, targetPath, fsType, options)
PublishFormatAndMount(t) ==
    /\ ~crashed
    /\ pc[t] = "mount"
    /\ LET tp == GetTargetPath(t)
           options == MountOptions(req[t].readonly, req[t].mountFlags)
       IN  \E r \in FormatAndMount(mounted, devicePath[t], tp, req[t].fsType, options) :
              /\ Logged(t, MountOp(mounted, "FormatAndMount", devicePath[t], tp,
                                   req[t].fsType, options, r.err))
              /\ mounted' = r.mounted
              /\ Finish(t, IF r.err # Nil THEN WrapInternal(r.err) ELSE Nil)
    /\ UNCHANGED <<history, resp, dir, dirReadable, crashed, req, devicePath, notMnt>>

\* NodeUnpublishVolume: m, err := mount.GetMountProvider()
UnpublishGetMountProvider(t) ==
    /\ ~crashed
    /\ pc[t] = "unpublish"
    /\ \E err \in GetMountProvider :
          /\ Logged(t, Op("GetMountProvider", <<>>, <<>>, "", <<>>, err))
          /\ IF err # Nil
             THEN Finish(t, err)
             ELSE /\ pc' = [pc EXCEPT ![t] = "checkDetach"]
                  /\ UNCHANGED result
    /\ UNCHANGED <<history, resp, dir, dirReadable, mounted, crashed, req, devicePath, notMnt>>

\* mutant of UnpublishIsLikelyNotMountPoint: Unpublish asks the
\* attach-variant check that Publish uses
UnpublishIsLikelyNotMountPointAttach(t) ==
    /\ ~crashed
    /\ pc[t] = "checkDetach"
    /\ \E r \in IsLikelyNotMountPointAttach(mounted, GetTargetPath(t)) :
          /\ Logged(t, Op("IsLikelyNotMountPointAttach", <<>>, GetTargetPath(t),
                          "", <<>>, r.err))
          /\ notMnt' = [notMnt EXCEPT ![t] = r.notMnt]
          /\ IF r.err # Nil
             THEN Finish(t, WrapInternal(r.err))
             ELSE IF r.notMnt
             THEN Finish(t, VolumeNotMounted)
             ELSE /\ pc' = [pc EXCEPT ![t] = "unmount"]
                  /\ UNCHANGED result
    /\ UNCHANGED <<history, resp, dir, dirReadable, mounted, crashed, req, devicePath>>

\* mutant of UnpublishIsLikelyNotMountPoint: the check waits while another
\* call stands between its own check and its mount or unmount of the target
UnpublishIsLikelyNotMountPointLocked(t) ==
    /\ ~crashed
    /\ pc[t] = "checkDetach"
    /\ \A u \in DOMAIN pc \ {t} :
          pc[u] \in {"mount", "unmount"} => req[u].targetPath # GetTargetPath(t)
    /\ \E r \in IsLikelyNotMountPointDetach(mounted, GetTargetPath(t)) :
          /\ Logged(t, Op("IsLikelyNotMountPointDetach", <<>>, GetTargetPath(t),
                          "", <<>>, r.err))
          /\ notMnt' = [notMnt EXCEPT ![t] = r.notMnt]
          /\ IF r.err # Nil
             THEN Finish(t, WrapInternal(r.err))
             ELSE IF r.notMnt
             THEN Finish(t, VolumeNotMounted)
             ELSE /\ pc' = [pc EXCEPT ![t] = "unmount"]
                  /\ UNCHANGED result
    /\ UNCHANGED <<history, resp, dir, dirReadable, mounted, crashed, req, devicePath>>

\* mutant of UnpublishIsLikelyNotMountPoint: like Publish, Unpublish treats
\* a target already in the wanted state as success
UnpublishIsLikelyNotMountPointTolerant(t) ==
    /\ ~crashed
    /\ pc[t] = "checkDetach"
    /\ \E r \in IsLikelyNotMountPointDetach(mounted, GetTargetPath(t)) :
          /\ Logged(t, Op("IsLikelyNotMountPointDetach", <<>>, GetTargetPath(t),
                          "", <<>>, r.err))
          /\ notMnt' = [notMnt EXCEPT ![t] = r.notMnt]
          /\ IF r.err # Nil
             THEN Finish(t, WrapInternal(r.err))
             ELSE IF r.notMnt
             THEN Finish(t, Nil)
             ELSE /\ pc' = [pc EXCEPT ![t] = "unmount"]
                  /\ UNCHANGED result
    /\ UNCHANGED <<history, resp, dir, dirReadable, mounted, crashed, req, devicePath>>

\* NodeUnpublishVolume: notMnt, err := m.IsLikelyNotMountPointDetach(targetPath),
\* and the NotFound return when the target is not a mount point
UnpublishIsLikelyNotMountPoint(t) ==
    /\ ~crashed
    /\ pc[t] = "checkDetach"
    /\ \E r \in IsLikelyNotMountPointDetach(mounted, GetTargetPath(t)) :
          /\ Logged(t, Op("IsLikelyNotMountPointDetach", <<>>, GetTargetPath(t),
                          "", <<>>, r.err))
          /\ notMnt' = [notMnt EXCEPT ![t] = r.notMnt]
          /\ IF r.err # Nil
             THEN Finish(t, WrapInternal(r.err))
             ELSE IF r.notMnt
             THEN Finish(t, VolumeNotMounted)
             ELSE /\ pc' = [pc EXCEPT ![t] = "unmount"]
                  /\ UNCHANGED result
    /\ UNCHANGED <<history, resp, dir, dirReadable, mounted, crashed, req, devicePath>>

\* mutant of UnpublishUnmountPath: returns success without unmounting
UnpublishSkipUnmount(t) ==
    /\ ~crashed
    /\ pc[t] = "unmount"
    /\ Finish(t, Nil)
    /\ UNCHANGED <<history, resp, dir, dirReadable, mounted, crashed, req, devicePath, notMnt, log>>

\* NodeUnpublishVolume: err = m.UnmountPath(req.GetTargetPath())
UnpublishUnmountPath(t) ==
    /\ ~crashed
    /\ pc[t] = "unmount"
    /\ LET tp == GetTargetPath(t)
       IN  \E r \in UnmountPath(mounted, tp) :
              /\ Logged(t, MountOp(mounted, "UnmountPath", <<>>, tp, "", <<>>, r.err))
              /\ mounted' = r.mounted
              /\ Finish(t, IF r.err # Nil THEN WrapInternal(r.err) ELSE Nil)
    /\ UNCHANGED <<history, resp, dir, dirReadable, crashed, req, devicePath, notMnt>>

\* mutant of NodeStageVolume: staging is left to the embedded default
\* server, which does not implement it
NodeStageVolumeUnimplemented(t) ==
    /\ ~crashed
    /\ pc[t] = "stage"
    /\ Finish(t, StatusError("Unimplemented", <<>>))
    /\ UNCHANGED <<history, resp, dir, dirReadable, mounted, crashed, req, devicePath, notMnt, log>>

\* NodeStageVolume: return &csi.NodeStageVolumeResponse{}, nil
NodeStageVolume(t) ==
    /\ ~crashed
    /\ pc[t] = "stage"
    /\ Finish(t, Nil)
    /\ UNCHANGED <<history, resp, dir, dirReadable, mounted, crashed, req, devicePath, notMnt, log>>

\* NodeUnstageVolume: return &csi.NodeUnstageVolumeResponse{}, nil
NodeUnstageVolume(t) ==
    /\ ~crashed
    /\ pc[t] = "unstage"
    /\ Finish(t, Nil)
    /\ UNCHANGED <<history, resp, dir, dirReadable, mounted, crashed, req, devicePath, notMnt, log>>

\* getNodeID(): the operations it invokes and the (nodeID, err) it returns
getNodeID ==
    {[ops |-> <<IdentityOp("GetMountProvider", "", e)>>, nodeID |-> "", err |-> e] :
        e \in GetMountProvider \ {Nil}}
      \cup
    {[ops |-> <<IdentityOp("GetMountProvider", "", Nil),
               IdentityOp("GetInstanceID", r.nodeID, r.err)>>,
      nodeID |-> IF r.err # Nil THEN "" ELSE r.nodeID,
      err |-> r.err] : r \in GetInstanceID}

\* mutant of HasNodeID: the provider's id is used even when it is empty
HasNodeIDAlways(nodeID) == TRUE

\* len(nodeID) > 0
HasNodeID(nodeID) == nodeID # ""

\* the body NodeGetId and NodeGetInfo share: getNodeID, then the provider's
\* id or the embedded default server's answer
NodeIdentity(t, default) ==
    /\ ~crashed
    /\ \E g \in getNodeID :
          IF g.err # Nil
          THEN /\ log' = [log EXCEPT ![t] = @ \o g.ops]
               /\ Finish(t, g.err)
               /\ UNCHANGED resp
          ELSE IF HasNodeID(g.nodeID)
          THEN /\ log' = [log EXCEPT ![t] = @ \o g.ops]
               /\ resp' = [resp EXCEPT ![t] = [EmptyResponse EXCEPT !.NodeId = g.nodeID]]
               /\ Finish(t, Nil)
          ELSE \E d \in DefaultNodeServer :
                  /\ log' = [log EXCEPT ![t] =
                                @ \o g.ops \o <<IdentityOp(default, d.resp.NodeId, d.err)>>]
                  /\ resp' = [resp EXCEPT ![t] = d.resp]
                  /\ Finish(t, d.err)
    /\ UNCHANGED <<history, dir, dirReadable, mounted, crashed, req, devicePath, notMnt>>

\* NodeGetId
NodeGetId(t) == pc[t] = "getId" /\ NodeIdentity(t, "DefaultNodeServer.NodeGetId")

\* NodeGetInfo
NodeGetInfo(t) == pc[t] = "getInfo" /\ NodeIdentity(t, "DefaultNodeServer.NodeGetInfo")

\* NodeGetCapabilities: one capability, of RPC type UNKNOWN
NodeGetCapabilities(t) ==
    /\ ~crashed
    /\ pc[t] = "getCapabilities"
    /\ resp' = [resp EXCEPT ![t] = [EmptyResponse EXCEPT !.Capabilities = <<"RPC_UNKNOWN">>]]
    /\ Finish(t, Nil)
    /\ UNCHANGED <<history, dir, dirReadable, mounted, crashed, req, devicePath, notMnt, log>>

\* the response (or error) reaches the dispatcher; the call's locals are gone
Return(t) ==
    /\ ~crashed
    /\ pc[t] = "done"
    /\ pc' = [pc EXCEPT ![t] = "idle"]
    /\ req' = [req EXCEPT ![t] = NoReq]
    /\ devicePath' = [devicePath EXCEPT ![t] = <<>>]
    /\ notMnt' = [notMnt EXCEPT ![t] = FALSE]
    /\ log' = [log EXCEPT ![t] = <<>>]
    /\ result' = [result EXCEPT ![t] = Nil]
    /\ resp' = [resp EXCEPT ![t] = EmptyResponse]
    /\ UNCHANGED <<history, dir, dirReadable, mounted, crashed>>

\* what the caller records of call t when it returns: the RPC, its target,
\* the error, the operations the call invoked, whether one of them failed,
\* and whether the target was a mount point at that moment
Outcome(t) ==
    [op |-> req[t].op,
     target |-> req[t].targetPath,
     result |-> result[t],
     ops |-> [i \in 1..Len(log[t]) |-> log[t][i].op],
     failed |-> \E i \in 1..Len(log[t]) : log[t][i].err # Nil,
     mountedAfter |-> mounted[req[t].targetPath] # NotMounted]

\* Return to a caller that keeps a record of its calls
ReturnRecorded(t) ==
    /\ ~crashed
    /\ pc[t] = "done"
    /\ history' = Append(history, Outcome(t))
    /\ pc' = [pc EXCEPT ![t] = "idle"]
    /\ req' = [req EXCEPT ![t] = NoReq]
    /\ devicePath' = [devicePath EXCEPT ![t] = <<>>]
    /\ notMnt' = [notMnt EXCEPT ![t] = FALSE]
    /\ log' = [log EXCEPT ![t] = <<>>]
    /\ result' = [result EXCEPT ![t] = Nil]
    /\ resp' = [resp EXCEPT ![t] = EmptyResponse]
    /\ UNCHANGED <<dir, dirReadable, mounted, crashed>>

-----------------------------------------------------------------------------
(* Specifications.                                                         *)

\* the state after construction: `threads` idle call slots, nothing mounted
\* on `targets`, and a by-id directory drawn from `dirs`
Setup(threads, targets, dirs, readable) ==
    /\ dir \in dirs
    /\ dirReadable \in readable
    /\ mounted = [tp \in targets |-> NotMounted]
    /\ crashed = FALSE
    /\ pc = [t \in threads |-> "idle"]
    /\ req = [t \in threads |-> NoReq]
    /\ devicePath = [t \in threads |-> <<>>]
    /\ notMnt = [t \in threads |-> FALSE]
    /\ log = [t \in threads |-> <<>>]
    /\ result = [t \in threads |-> Nil]
    /\ resp = [t \in threads |-> EmptyResponse]
    /\ history = <<>>

Virtio(v) == CandidateDeviceNodes(v)[1]
Scsi(v) == CandidateDeviceNodes(v)[2]
Wwn(v) == CandidateDeviceNodes(v)[3]

\* entries that resemble a candidate of VolA without being one
Decoys ==
    { VirtioPrefix \o VolShort,
      VirtioPrefix \o VolA,
      WwnPrefix \o VolA }

SeqThreads == {1}

SeqTargets == {TargetPath(1), TargetPath(2)}

SeqDirs ==
    { {}, Decoys, {Virtio(VolA)}, {Wwn(VolB)} \cup Decoys,
      {Virtio(VolA), Scsi(VolA), Wwn(VolA), Scsi(VolB)} }

\* every option shape on one volume and target, every volume on every target
SeqRequests ==
    PublishRequests({VolA}, {TargetPath(1)}, FsTypes, BOOLEAN, FlagSeqs)
        \cup PublishRequests(VolumeIDs, SeqTargets, {"ext4"}, {FALSE}, {<<>>})
        \cup UnpublishRequests(SeqTargets)
        \cup StageRequests({VolA, VolShort}, SeqTargets)
        \cup QueryRequests

Handler(t) ==
    \/ PublishResolve(t)
    \/ PublishGetMountProvider(t)
    \/ PublishScanForAttach(t)
    \/ PublishIsLikelyNotMountPoint(t)
    \/ PublishFormatAndMount(t)
    \/ UnpublishGetMountProvider(t)
    \/ UnpublishIsLikelyNotMountPoint(t)
    \/ UnpublishUnmountPath(t)
    \/ Return(t)

\* the steps of the handlers that neither resolve, mount nor unmount
Query(t) ==
    \/ NodeStageVolume(t)
    \/ NodeUnstageVolume(t)
    \/ NodeGetId(t)
    \/ NodeGetInfo(t)
    \/ NodeGetCapabilities(t)

\* one call at a time, every RPC and every request shape
Init == Setup(SeqThreads, SeqTargets, SeqDirs, {TRUE})

Next ==
    \E t \in SeqThreads :
        \/ \E r \in SeqRequests : Call(t, r)
        \/ Handler(t)
        \/ Query(t)

Spec == Init /\ [][Next]_vars

\* device resolution alone: every by-id directory over ResolveNames, readable
\* or not, and every volume id
ResolveNames ==
    {Virtio(VolA), Scsi(VolA), Wwn(VolA), Virtio(VolB), Wwn(VolB)} \cup Decoys

ResolveRequests ==
    PublishRequests(VolumeIDs, {TargetPath(1)}, {"ext4"}, {FALSE}, {<<>>})

ResolveInit == Setup(SeqThreads, {TargetPath(1)}, SUBSET ResolveNames, BOOLEAN)

ResolveNext ==
    \E t \in SeqThreads :
        \/ \E r \in ResolveRequests : Call(t, r)
        \/ PublishResolve(t)
        \/ Return(t)

ResolveSpec == ResolveInit /\ [][ResolveNext]_vars

\* one caller that issues Publish, Publish, Unpublish, Unpublish on one
\* target, each call after the one before has returned, and records what it
\* gets back
ScriptOps == <<"Publish", "Publish", "Unpublish", "Unpublish">>

\* the requests the caller may issue next
ScriptRequests ==
    IF Len(history) >= Len(ScriptOps) THEN {}
    ELSE LET targets == IF history = <<>> THEN SeqTargets ELSE {history[1].target}
         IN  IF ScriptOps[Len(history) + 1] = "Publish"
             THEN PublishRequests({VolA, VolB}, targets, {"ext4"}, {FALSE}, {<<>>})
             ELSE UnpublishRequests(targets)

RunInit == Setup(SeqThreads, SeqTargets, {{Virtio(VolA), Scsi(VolB)}}, {TRUE})

RunNext ==
    \E t \in SeqThreads :
        \/ \E r \in ScriptRequests : Call(t, r)
        \/ PublishResolve(t)
        \/ PublishGetMountProvider(t)
        \/ PublishScanForAttach(t)
        \/ PublishIsLikelyNotMountPoint(t)
        \/ PublishFormatAndMount(t)
        \/ UnpublishGetMountProvider(t)
        \/ UnpublishIsLikelyNotMountPoint(t)
        \/ UnpublishUnmountPath(t)
        \/ ReturnRecorded(t)

RunSpec == RunInit /\ [][RunNext]_vars

\* concurrent calls racing on one target path
ConcThreads == 1..NumThreads

ConcRequests ==
    PublishRequests({VolA}, {TargetPath(1)}, {"ext4"}, {FALSE}, {<<>>})
        \cup UnpublishRequests({TargetPath(1)})

ConcInit == Setup(ConcThreads, {TargetPath(1)}, {{Virtio(VolA)}}, {TRUE})

ConcNext ==
    \E t \in ConcThreads :
        \/ \E r \in ConcRequests : Call(t, r)
        \/ Handler(t)

ConcSpec == ConcInit /\ [][ConcNext]_vars

\* two Unpublish calls and a Publish call racing on one target path: one
\* call slot for each
RaceThreads == {"unpublish1", "unpublish2", "publish"}

RaceRequests(t) ==
    IF t = "publish"
    THEN PublishRequests({VolA}, {TargetPath(1)}, {"ext4"}, {FALSE}, {<<>>})
    ELSE UnpublishRequests({TargetPath(1)})

RaceInit == Setup(RaceThreads, {TargetPath(1)}, {{Virtio(VolA)}}, {TRUE})

RaceNext ==
    \E t \in RaceThreads :
        \/ \E r \in RaceRequests(t) : Call(t, r)
        \/ Handler(t)

RaceSpec == RaceInit /\ [][RaceNext]_vars

\* concurrent calls on pairwise different volumes and target paths: call
\* slot t serves volume t on target t
DisjointRequests(t) ==
    PublishRequests({Volume(t)}, {TargetPath(t)}, {"ext4"}, {FALSE}, {<<>>})
        \cup UnpublishRequests({TargetPath(t)})

DisjointInit ==
    Setup(ConcThreads, {TargetPath(t) : t \in ConcThreads},
          {{Virtio(Volume(t)) : t \in ConcThreads}}, {TRUE})

DisjointNext ==
    \E t \in ConcThreads :
        \/ \E r \in DisjointRequests(t) : Call(t, r)
        \/ Handler(t)

DisjointSpec == DisjointInit /\ [][DisjointNext]_vars

-----------------------------------------------------------------------------
(* Properties.                                                             *)

IsPublish(t) == req[t].op = "Publish"
IsUnpublish(t) == req[t].op = "Unpublish"

\* the positions in call t's log where operation `name` was invoked
Calls(t, name) == {i \in 1..Len(log[t]) : log[t][i].op = name}

\* operation `name` was invoked by call t and returned without error
Succeeded(t, name) == \E i \in Calls(t, name) : log[t][i].err = Nil

\* the attach-variant check of call t reported "already a mount point"
ReportedMounted(t) ==
    IsPublish(t) /\ Succeeded(t, "IsLikelyNotMountPointAttach") /\ ~notMnt[t]

\* the attach-variant check of call t reported "not a mount point"
ReportedNotMounted(t) ==
    IsPublish(t) /\ Succeeded(t, "IsLikelyNotMountPointAttach") /\ notMnt[t]

C1_AlreadyMounted ==
    \A t \in Threads :
        ReportedMounted(t) =>
            /\ pc[t] = "done"
            /\ result[t] = Nil
            /\ Calls(t, "FormatAndMount") = {}

C1_Step ==
    \A t \in Threads :
        IsPublish(t) /\ mounted[req[t].targetPath] # NotMounted => mounted' = mounted

\* C1: a Publish whose attach-variant check reports the target already
\* mounted returns success at once and never invokes FormatAndMount; and,
\* one call at a time, no step of a Publish on a mounted target changes the
\* mount table.
C1_PublishIdempotent == [][C1_AlreadyMounted' /\ C1_Step]_vars

\* a Publish found its target already mounted and returned success
C1_Witness ==
    \E t \in Threads :
        /\ ReportedMounted(t)
        /\ pc[t] = "done"
        /\ result[t] = Nil
        /\ mounted[req[t].targetPath] # NotMounted

\* the path getDevicePathBySerialID returned to call t
ResolvedPath(t) == log[t][1].dev

\* C2: a Publish whose attach-variant check reported "not a mount point"
\* has, when it ends, invoked FormatAndMount exactly once, with the resolved
\* device path, the request's target path and fsType, and the options "ro"
\* (readonly) or "rw" followed by the request's mount flags in their order.
C2_MountOnceWithOptions ==
    \A t \in Threads :
        ReportedNotMounted(t) /\ pc[t] = "done" =>
            /\ Cardinality(Calls(t, "FormatAndMount")) = 1
            /\ log[t][1].op = "getDevicePathBySerialID"
            /\ \A i \in Calls(t, "FormatAndMount") :
                  /\ log[t][i].dev = ResolvedPath(t)
                  /\ log[t][i].dev # <<>>
                  /\ log[t][i].target = req[t].targetPath
                  /\ log[t][i].fsType = req[t].fsType
                  /\ log[t][i].options =
                        <<IF req[t].readonly THEN "ro" ELSE "rw">> \o req[t].mountFlags

\* a readonly Publish with two different mount flags has mounted
C2_Witness ==
    \E t \in Threads :
        /\ ReportedNotMounted(t)
        /\ pc[t] = "done"
        /\ req[t].readonly
        /\ Len(req[t].mountFlags) = 2
        /\ req[t].mountFlags[1] # req[t].mountFlags[2]
        /\ Succeeded(t, "FormatAndMount")

\* the detach-variant check of call t reported "not a mount point"
DetachReportedNotMounted(t) ==
    IsUnpublish(t) /\ Succeeded(t, "IsLikelyNotMountPointDetach") /\ notMnt[t]

\* the detach-variant check of call t reported "a mount point"
DetachReportedMounted(t) ==
    IsUnpublish(t) /\ Succeeded(t, "IsLikelyNotMountPointDetach") /\ ~notMnt[t]

C3_NotMounted ==
    \A t \in Threads :
        DetachReportedNotMounted(t) =>
            /\ pc[t] = "done"
            /\ result[t] = [isStatus |-> TRUE, code |-> "NotFound",
                            msg |-> <<"Volume not mounted">>]
            /\ Calls(t, "UnmountPath") = {}

C3_Step ==
    \A t \in Threads : DetachReportedNotMounted(t)' => mounted' = mounted

\* C3: an Unpublish whose detach-variant check reports the target not
\* mounted ends at once with the NotFound error "Volume not mounted", never
\* invokes UnmountPath, and the step leaves the mount table unchanged.
C3_UnpublishNotMounted == [][C3_NotMounted' /\ C3_Step]_vars

\* an Unpublish of an unmounted target has failed with NotFound
C3_Witness ==
    \E t \in Threads :
        /\ DetachReportedNotMounted(t)
        /\ pc[t] = "done"
        /\ result[t].code = "NotFound"
        /\ mounted[req[t].targetPath] = NotMounted

\* C4: an Unpublish whose detach-variant check reported the target mounted
\* goes on to UnmountPath and, when it ends, has invoked UnmountPath exactly
\* once, on the request's target path; it returns success iff that succeeded.
C4_UnmountOnce ==
    \A t \in Threads :
        DetachReportedMounted(t) =>
            /\ pc[t] \in {"unmount", "done"}
            /\ pc[t] = "unmount" => Calls(t, "UnmountPath") = {}
            /\ pc[t] = "done" =>
                  /\ Cardinality(Calls(t, "UnmountPath")) = 1
                  /\ \A i \in Calls(t, "UnmountPath") :
                        /\ log[t][i].target = req[t].targetPath
                        /\ (log[t][i].err = Nil) = (result[t] = Nil)

\* an Unpublish of a mounted target has unmounted it and returned success
C4_Witness ==
    \E t \in Threads :
        /\ DetachReportedMounted(t)
        /\ pc[t] = "done"
        /\ Succeeded(t, "UnmountPath")
        /\ result[t] = Nil
        /\ mounted[req[t].targetPath] = NotMounted

\* the entries getDevicePathBySerialID sees in /dev/disk/by-id/
Listed == {ReadDir(dir, dirReadable)[i] : i \in 1..Len(ReadDir(dir, dirReadable))}

\* call t is a Publish, of a volume id of at least 20 characters, whose
\* device resolution has run
Resolving(t) ==
    /\ IsPublish(t)
    /\ Len(req[t].volumeID) >= 20
    /\ Len(log[t]) >= 1

\* which of the three candidates of call t's volume id are listed
Present(t) == {j \in 1..3 : CandidateDeviceNodes(req[t].volumeID)[j] \in Listed}

\* the path of entry `name` of the by-id directory
ById(name) ==
    <<"/", "d", "e", "v", "/", "d", "i", "s", "k", "/", "b", "y", "-", "i", "d", "/">>
        \o name

\* C5 as stated: when two or more candidates are listed, resolution returns
\* the entry of the first listed candidate in the order virtio, virtio-scsi,
\* WWN.
C5_CandidatePriority ==
    \A t \in Threads :
        Resolving(t) /\ Cardinality(Present(t)) >= 2 =>
            LET c == CandidateDeviceNodes(req[t].volumeID)
                first == CHOOSE j \in Present(t) : \A k \in Present(t) : j <= k
            IN  log[t][1].err = Nil /\ ResolvedPath(t) = ById(c[first])

\* C5 as amended: when two or more candidates are listed, resolution returns
\* the listed candidate that comes first in the listing, which is sorted by
\* file name: the virtio-scsi entry before the virtio entry before the WWN
\* entry.
C5_ListingOrderPriority ==
    \A t \in Threads :
        Resolving(t) /\ Cardinality(Present(t)) >= 2 =>
            LET c == CandidateDeviceNodes(req[t].volumeID)
                winner == IF 2 \in Present(t) THEN c[2]
                          ELSE IF 1 \in Present(t) THEN c[1] ELSE c[3]
            IN  /\ log[t][1].err = Nil
                /\ ResolvedPath(t) = ById(winner)
                /\ \A j \in Present(t) : c[j] = winner \/ StrLess(winner, c[j])

\* all three candidates of a volume are listed and the virtio-scsi entry is returned
C5_Witness ==
    \E t \in Threads :
        /\ Resolving(t)
        /\ Present(t) = {1, 2, 3}
        /\ ResolvedPath(t) = ById(Scsi(req[t].volumeID))

\* C6 as stated: when no candidate is listed, resolution fails with a
\* NotFound error and Publish returns that error.
C6_NotFound ==
    \A t \in Threads :
        Resolving(t) /\ dirReadable /\ Present(t) = {} =>
            /\ pc[t] = "done"
            /\ result[t] = log[t][1].err
            /\ result[t].code = "NotFound"

ProviderOps ==
    {"GetMountProvider", "ScanForAttach", "IsLikelyNotMountPointAttach",
     "FormatAndMount", "IsLikelyNotMountPointDetach", "UnmountPath"}

\* C7 as stated: a call in which a mount-provider operation failed returns
\* an error of kind Internal.
C7_ProviderFailureIsInternal ==
    \A t \in Threads :
        /\ pc[t] = "done"
        /\ \E i \in 1..Len(log[t]) : log[t][i].op \in ProviderOps /\ log[t][i].err # Nil
        => result[t].isStatus /\ result[t].code = "Internal"

\* C8: Publish calls on one target are not coordinated. A call whose check
\* reported "not a mount point" is never held back, and its next step
\* invokes FormatAndMount on the target whatever the mount table says by
\* then, also when another call has mounted the target since the check.
C8_MountAfterStaleCheck ==
    [][\A t \in Threads :
          pc[t] = "mount" =>
              /\ ReportedNotMounted(t)
              /\ ENABLED PublishFormatAndMount(t)
              /\ pc'[t] # pc[t] =>
                    /\ Len(log'[t]) = Len(log[t]) + 1
                    /\ log'[t][Len(log'[t])].op = "FormatAndMount"
                    /\ log'[t][Len(log'[t])].target = req[t].targetPath
                    /\ log'[t][Len(log'[t])].before = mounted[req[t].targetPath]]_vars

\* two Publish calls on one target both saw it not mounted and both invoked
\* FormatAndMount: the second when the first's mount was already in place
C8_Witness ==
    \E t, u \in Threads :
        /\ t # u
        /\ req[t].targetPath = req[u].targetPath
        /\ ReportedNotMounted(t) /\ ReportedNotMounted(u)
        /\ pc[t] = "done" /\ pc[u] = "done"
        /\ \E i \in Calls(u, "FormatAndMount") :
              log[u][i].err = Nil /\ log[u][i].before = NotMounted
        /\ \E i \in Calls(t, "FormatAndMount") : log[t][i].before # NotMounted

\* what holds of a call that runs alone: between its mount-state check and
\* its mount or unmount the target stays as the check found it, a
\* successful Publish leaves the target mounted and a successful Unpublish
\* leaves it not mounted
C9_AsAlone ==
    \A t \in Threads :
        LET tp == req[t].targetPath IN
        /\ pc[t] = "mount" => mounted[tp] = NotMounted
        /\ pc[t] = "unmount" => mounted[tp] # NotMounted
        /\ \A i \in Calls(t, "FormatAndMount") : log[t][i].before = NotMounted
        /\ \A i \in Calls(t, "UnmountPath") : log[t][i].before # NotMounted
        /\ IsPublish(t) /\ pc[t] = "done" /\ result[t] = Nil => mounted[tp] # NotMounted
        /\ IsUnpublish(t) /\ pc[t] = "done" /\ result[t] = Nil => mounted[tp] = NotMounted
        /\ ReportedMounted(t) => mounted[tp] # NotMounted
        /\ DetachReportedNotMounted(t) => mounted[tp] = NotMounted

\* a step of call t touches only t's locals and the mount state of t's target
C9_Frame ==
    \A t \in Threads :
        pc'[t] # pc[t] =>
            /\ \A u \in Threads \ {t} :
                  /\ req'[u] = req[u] /\ devicePath'[u] = devicePath[u]
                  /\ notMnt'[u] = notMnt[u] /\ log'[u] = log[u]
                  /\ result'[u] = result[u] /\ pc'[u] = pc[u]
            /\ \A tp \in DOMAIN mounted :
                  mounted'[tp] # mounted[tp] => tp = req[t].targetPath

\* C9: calls on pairwise different volumes and target paths are independent:
\* in every interleaving each call sees and leaves its target as it would
\* running alone, and a step of one call changes nothing of another call
\* and no other target's mount state.
C9_DisjointIndependent == [][C9_AsAlone' /\ C9_Frame]_vars

\* two calls on different targets are in flight together: one has mounted
\* its target, the other is between its check and its mount
C9_Witness ==
    \E t, u \in Threads :
        /\ t # u
        /\ req[t].targetPath # req[u].targetPath
        /\ pc[t] = "mount"
        /\ pc[u] = "done" /\ Succeeded(u, "FormatAndMount")
        /\ mounted[req[u].targetPath] # NotMounted
        /\ mounted[req[t].targetPath] = NotMounted

PublishOrder ==
    <<"getDevicePathBySerialID", "GetMountProvider", "ScanForAttach",
      "IsLikelyNotMountPointAttach", "FormatAndMount">>

C10_Order ==
    \A t \in Threads :
        IsPublish(t) =>
            /\ Len(log[t]) <= Len(PublishOrder)
            /\ \A i \in 1..Len(log[t]) :
                  /\ log[t][i].op = PublishOrder[i]
                  /\ log[t][i].err # Nil =>
                        /\ i = Len(log[t])
                        /\ pc[t] \in {"done", "panicked"}
                        /\ pc[t] = "done" => result[t] # Nil
            /\ pc[t] = "done" /\ result[t] = Nil => Len(log[t]) >= 4
            /\ pc[t] = "done" /\ log[t][1].err # Nil =>
                  Len(log[t]) = 1 /\ result[t] = log[t][1].err

C10_Step ==
    \A t \in Threads :
        IsPublish(t) /\ mounted' # mounted =>
            pc[t] = "mount" /\ log'[t][Len(log'[t])].op = "FormatAndMount"

\* C10: the operations of a Publish are a prefix of resolve, get provider,
\* scan, attach check, format-and-mount, each at most once; an operation
\* that fails is the last one and the call ends with an error; a failed
\* resolution is returned as it is with no provider operation invoked; and
\* the mount table changes only in the format-and-mount step.
C10_FailFastInOrder == [][C10_Order' /\ C10_Step]_vars

\* a Publish stopped at a failed scan: no check, no mount, an error returned
C10_Witness ==
    \E t \in Threads :
        /\ IsPublish(t)
        /\ pc[t] = "done"
        /\ Len(log[t]) = 3
        /\ log[t][3].op = "ScanForAttach"
        /\ log[t][3].err # Nil
        /\ result[t] = log[t][3].err
        /\ mounted[req[t].targetPath] = NotMounted

-----------------------------------------------------------------------------
(* Short volume identifiers.                                               *)

\* C11: a Publish whose volume identifier is shorter than 20 characters
\* ends, once resolution has run, with an error returned to the caller; the
\* process is still alive and no provider operation (get provider, scan,
\* mount-state check, format-and-mount) has been invoked.
C11_ShortIdRejected ==
    \A t \in Threads :
        IsPublish(t) /\ Len(req[t].volumeID) < SerialLen /\ pc[t] # "resolve" =>
            /\ pc[t] = "done"
            /\ result[t] # Nil
            /\ ~crashed
            /\ \A i \in 1..Len(log[t]) : log[t][i].op = "getDevicePathBySerialID"

-----------------------------------------------------------------------------
(* Listing failures.                                                       *)

\* what getDevicePathBySerialID yields for `volumeID` on a readable, empty
\* by-id directory
OnEmptyDirectory(volumeID) == getDevicePathBySerialID(volumeID, ReadDir({}, TRUE))

\* C12: when /dev/disk/by-id/ cannot be listed, resolution ends, for every
\* volume id and whatever the directory holds, exactly as it does on an
\* empty directory; for an id of at least 20 characters that is the no-match
\* failure "Failed to find device by volume ID", returned as the call's
\* result with nothing else invoked.
C12_ListingFailureSwallowed ==
    \A t \in Threads :
        IsPublish(t) /\ Len(log[t]) >= 1 /\ ~dirReadable =>
            /\ log[t][1].op = "getDevicePathBySerialID"
            /\ log[t][1].err = OnEmptyDirectory(req[t].volumeID).err
            /\ log[t][1].dev = OnEmptyDirectory(req[t].volumeID).path
            /\ (pc[t] = "panicked") = OnEmptyDirectory(req[t].volumeID).panic
            /\ Len(req[t].volumeID) >= SerialLen =>
                  /\ pc[t] = "done"
                  /\ Len(log[t]) = 1
                  /\ result[t] = log[t][1].err
                  /\ result[t].isStatus
                  /\ result[t].msg = <<"Failed to find device by volume ID">>

\* the directory holds all three candidates of the request's volume id but
\* cannot be listed: the call ended in the no-match failure
C12_Witness ==
    \E t \in Threads :
        /\ Resolving(t)
        /\ ~dirReadable
        /\ \A j \in 1..3 : CandidateDeviceNodes(req[t].volumeID)[j] \in dir
        /\ pc[t] = "done"
        /\ result[t].msg = <<"Failed to find device by volume ID">>

-----------------------------------------------------------------------------
(* Exact matching.                                                         *)

\* C13: for a volume id of at least 20 characters and any directory
\* listing, resolution succeeds if and only if some listed entry is equal,
\* character for character, to one of the three candidates; the path it
\* returns is /dev/disk/by-id/ joined with such an entry, and a failed
\* resolution returns no path.
C13_ExactMatch ==
    \A t \in Threads :
        Resolving(t) =>
            /\ (log[t][1].err = Nil) <=> (Present(t) # {})
            /\ log[t][1].err = Nil =>
                  \E name \in Listed :
                      /\ name \in dir
                      /\ \E j \in 1..3 : name = CandidateDeviceNodes(req[t].volumeID)[j]
                      /\ log[t][1].dev = ById(name)
            /\ log[t][1].err # Nil => log[t][1].dev = <<>>

\* the listing holds near misses of the request's candidates (a shorter and
\* a longer virtio name, a WWN name with the hyphens left in), all sorted
\* before the one exact entry, the WWN candidate: resolution returned that
\* entry's path
C13_Witness ==
    \E t \in Threads :
        /\ Resolving(t)
        /\ req[t].volumeID = VolA
        /\ dirReadable
        /\ Decoys \subseteq dir
        /\ Present(t) = {3}
        /\ log[t][1].err = Nil
        /\ log[t][1].dev = ById(Wwn(VolA))

-----------------------------------------------------------------------------
(* The candidate names.                                                    *)

RECURSIVE C16_Strip(_)
\* s with every "-" left out, character by character
C16_Strip(s) ==
    IF s = <<>> THEN <<>>
    ELSE IF Head(s) = "-" THEN C16_Strip(Tail(s))
    ELSE <<Head(s)>> \o C16_Strip(Tail(s))

\* the three names the claim spells out for volume id v
C16_Names(v) ==
    << <<"v", "i", "r", "t", "i", "o", "-">> \o [i \in 1..20 |-> v[i]],
       <<"s", "c", "s", "i", "-", "0", "Q", "E", "M", "U", "_", "Q", "E", "M",
         "U", "_", "H", "A", "R", "D", "D", "I", "S", "K", "_">>
           \o [i \in 1..20 |-> v[i]],
       <<"w", "w", "n", "-", "0", "x">> \o C16_Strip(v) >>

\* C16: for a volume id of at least 20 characters the candidates are exactly
\* three names, fixed by the id alone: "virtio-" and
\* "scsi-0QEMU_QEMU_HARDDISK_", each followed by the id's first 20
\* characters, and "wwn-0x" followed by the whole id without its hyphens;
\* resolution succeeds exactly when one of these three is listed and then
\* returns the path of one of them.
C16_ThreeCandidates ==
    \A t \in Threads :
        Resolving(t) =>
            /\ CandidateDeviceNodes(req[t].volumeID) = C16_Names(req[t].volumeID)
            /\ Len(CandidateDeviceNodes(req[t].volumeID)) = 3
            /\ (log[t][1].err = Nil) <=>
                  (\E j \in 1..3 : C16_Names(req[t].volumeID)[j] \in Listed)
            /\ log[t][1].err = Nil =>
                  \E j \in 1..3 :
                      /\ C16_Names(req[t].volumeID)[j] \in Listed
                      /\ log[t][1].dev = ById(C16_Names(req[t].volumeID)[j])

\* a 36-character id with hyphens beyond its 20th character was resolved
\* through the WWN name, which carries all 32 of its other characters
C16_Witness ==
    \E t \in Threads :
        /\ Resolving(t)
        /\ Len(req[t].volumeID) = 36
        /\ \E i \in 21..36 : req[t].volumeID[i] = "-"
        /\ log[t][1].err = Nil
        /\ Len(log[t][1].dev) = 16 + 6 + 32
        /\ log[t][1].dev = ById(C16_Names(req[t].volumeID)[3])
        /\ log[t][1].dev =
              <<"/", "d", "e", "v", "/", "d", "i", "s", "k", "/", "b", "y", "-",
                "i", "d", "/", "w", "w", "n", "-", "0", "x",
                "1", "c", "2", "a", "1", "f", "0", "e", "9", "d", "8", "b",
                "4", "c", "7", "a", "8", "e", "6", "f",
                "5", "d", "4", "c", "3", "b", "2", "a", "1", "f", "0", "e">>

-----------------------------------------------------------------------------
(* Stage and Unstage.                                                      *)

IsStaging(t) == req[t].op \in {"Stage", "Unstage"}

C14_NoOp ==
    \A t \in Threads :
        IsStaging(t) =>
            /\ pc[t] \in {"stage", "unstage", "done"}
            /\ log[t] = <<>>
            /\ devicePath[t] = <<>>
            /\ ~crashed
            /\ pc[t] = "done" => result[t] = Nil /\ resp[t] = EmptyResponse

C14_Step ==
    \A t \in Threads :
        IsStaging(t) =>
            /\ mounted' = mounted
            /\ pc[t] = "stage" => ENABLED NodeStageVolume(t)
            /\ pc[t] = "unstage" => ENABLED NodeUnstageVolume(t)
            /\ pc[t] \in {"stage", "unstage"} /\ pc'[t] # pc[t] => pc'[t] = "done"

\* C14: a NodeStageVolume or NodeUnstageVolume call, whatever its request
\* and whatever is mounted, can always take its one step, which ends the
\* call with success and an empty response; it invokes no provider
\* operation and no device resolution, and none of its steps changes the
\* mount table.
C14_StageUnstageNoOp == [][C14_NoOp' /\ C14_Step]_vars

\* an Unstage of a 19-character volume id, on a target that holds a mounted
\* device, returned success and the device is still mounted there
C14_Witness ==
    \E t \in Threads :
        /\ req[t].op = "Unstage"
        /\ Len(req[t].volumeID) < SerialLen
        /\ pc[t] = "done"
        /\ result[t] = Nil
        /\ log[t] = <<>>
        /\ mounted[req[t].targetPath] # NotMounted

-----------------------------------------------------------------------------
(* Node identity.                                                          *)

IsIdentity(t) == req[t].op \in {"NodeGetId", "NodeGetInfo"}

\* the embedded default server's method that call t falls back to
DefaultFor(t) ==
    IF req[t].op = "NodeGetId" THEN "DefaultNodeServer.NodeGetId"
    ELSE "DefaultNodeServer.NodeGetInfo"

\* C15: a NodeGetId or NodeGetInfo call that has ended obtained the provider
\* and then asked it for the instance id. If either failed, that error is
\* the call's result as it is and nothing else was invoked. If the id is
\* non-empty the response carries exactly that id and the default server
\* was not consulted. If the id is empty the call's response and error are
\* those of the default server's method of the same name.
C15_NodeIdentityFallback ==
    \A t \in Threads :
        IsIdentity(t) /\ pc[t] = "done" =>
            /\ Len(log[t]) >= 1
            /\ log[t][1].op = "GetMountProvider"
            /\ Calls(t, DefaultFor(t)) \subseteq {3}
            /\ \A i \in 1..Len(log[t]) : log[t][i].err # Nil => i = Len(log[t])
            /\ IF log[t][1].err # Nil
               THEN Len(log[t]) = 1 /\ result[t] = log[t][1].err
               ELSE /\ Len(log[t]) >= 2
                    /\ log[t][2].op = "GetInstanceID"
                    /\ IF log[t][2].err # Nil
                       THEN Len(log[t]) = 2 /\ result[t] = log[t][2].err
                       ELSE IF log[t][2].ret # ""
                       THEN /\ Len(log[t]) = 2
                            /\ result[t] = Nil
                            /\ resp[t].NodeId = log[t][2].ret
                       ELSE /\ Len(log[t]) = 3
                            /\ log[t][3].op = DefaultFor(t)
                            /\ result[t] = log[t][3].err
                            /\ resp[t].NodeId = log[t][3].ret

\* the provider reported an empty instance id to a NodeGetInfo call, which
\* answered with the default server's node id
C15_Witness ==
    \E t \in Threads :
        /\ req[t].op = "NodeGetInfo"
        /\ pc[t] = "done"
        /\ Len(log[t]) = 3
        /\ log[t][2].op = "GetInstanceID"
        /\ log[t][2].err = Nil
        /\ log[t][2].ret = ""
        /\ log[t][3].op = "DefaultNodeServer.NodeGetInfo"
        /\ result[t] = Nil
        /\ resp[t].NodeId = DefaultNodeID

-----------------------------------------------------------------------------
(* What a successful Publish leaves mounted.                               *)

\* C17: whenever a Publish has returned success (one call at a time, provider
\* operations taking effect when they succeed), its target path is a mount
\* point that holds the device resolved from the request's volume id, also
\* when the target had been mounted by an earlier Publish of another volume.
C17_PublishedDevice ==
    \A t \in Threads :
        IsPublish(t) /\ pc[t] = "done" /\ result[t] = Nil =>
            /\ mounted[req[t].targetPath] # NotMounted
            /\ mounted[req[t].targetPath] = ResolvedPath(t)

-----------------------------------------------------------------------------
(* Publish, Publish, Unpublish, Unpublish.                                 *)

\* how often recorded call k invoked operation `name`
Invoked(k, name) ==
    Cardinality({i \in 1..Len(history[k].ops) : history[k].ops[i] = name})

\* no operation failed in the caller's first k calls
AllSucceeded(k) == \A j \in 1..k : ~history[j].failed

\* C18: in a run of Publish, Publish, Unpublish, Unpublish on one target,
\* one call at a time, as long as no provider operation has failed: the
\* first Publish succeeds with one format-and-mount, the second succeeds
\* with none and the target stays mounted, the first Unpublish succeeds with
\* one unmount and leaves the target not mounted, and the second Unpublish
\* fails with NotFound "Volume not mounted" without unmounting.
C18_AsymmetricIdempotency ==
    /\ Len(history) >= 1 /\ AllSucceeded(1) =>
          /\ history[1].op = "Publish"
          /\ history[1].result = Nil
          /\ Invoked(1, "FormatAndMount") = 1
          /\ history[1].mountedAfter
    /\ Len(history) >= 2 /\ AllSucceeded(2) =>
          /\ history[2].op = "Publish"
          /\ history[2].result = Nil
          /\ Invoked(2, "FormatAndMount") = 0
          /\ history[2].mountedAfter
    /\ Len(history) >= 3 /\ AllSucceeded(3) =>
          /\ history[3].op = "Unpublish"
          /\ history[3].result = Nil
          /\ Invoked(3, "UnmountPath") = 1
          /\ ~history[3].mountedAfter
    /\ Len(history) >= 4 /\ AllSucceeded(4) =>
          /\ history[4].op = "Unpublish"
          /\ history[4].result.isStatus
          /\ history[4].result.code = "NotFound"
          /\ history[4].result.msg = <<"Volume not mounted">>
          /\ Invoked(4, "UnmountPath") = 0
          /\ ~history[4].mountedAfter

\* the four calls have returned, all on one target and with no operation
\* failing, the last one with NotFound
C18_Witness ==
    /\ Len(history) = 4
    /\ AllSucceeded(4)
    /\ \A k \in 1..4 : history[k].target = history[1].target
    /\ history[3].result = Nil
    /\ history[4].result.code = "NotFound"

-----------------------------------------------------------------------------
(* Check and act are separate steps.                                       *)

\* the last operation call t has invoked, in the next state
LastOp(t) == log'[t][Len(log'[t])]

\* C19: nothing orders the calls on one target. A call that has begun and
\* not ended can take its next step in every state, whatever the other
\* calls are doing; an Unpublish that passed its check invokes UnmountPath
\* on the target as it then is, mounted or not; and a Publish that passed
\* its check as "not mounted" invokes FormatAndMount on the target as it
\* then is. Hence two Unpublish calls can both pass the check and both
\* unmount, and a Publish that found its target mounted returns success
\* also when an Unpublish has unmounted the target in between.
C19_CheckThenActNotAtomic ==
    [][\A t \in Threads :
          /\ pc[t] \notin {"idle", "done", "panicked"} => ENABLED Handler(t)
          /\ pc[t] = "unmount" /\ pc'[t] # "unmount" =>
                /\ LastOp(t).op = "UnmountPath"
                /\ LastOp(t).before = mounted[req[t].targetPath]
          /\ pc[t] = "mount" /\ pc'[t] # "mount" =>
                /\ LastOp(t).op = "FormatAndMount"
                /\ LastOp(t).before = mounted[req[t].targetPath]
          /\ ReportedMounted(t) /\ pc[t] = "done" /\ pc'[t] = "done" =>
                result'[t] = Nil]_vars

\* two Unpublish calls both passed the check on the mounted target and both
\* invoked UnmountPath, the later one on a target no longer mounted; and a
\* Publish that found the target mounted has returned success while the
\* target is not mounted
C19_Witness ==
    /\ \E t, u \in Threads :
          /\ t # u
          /\ DetachReportedMounted(t) /\ DetachReportedMounted(u)
          /\ pc[t] = "done" /\ pc[u] = "done"
          /\ req[t].targetPath = req[u].targetPath
          /\ \E i \in Calls(t, "UnmountPath") :
                log[t][i].before # NotMounted /\ log[t][i].err = Nil
          /\ \E i \in Calls(u, "UnmountPath") : log[u][i].before = NotMounted
    /\ \E p \in Threads :
          /\ ReportedMounted(p)
          /\ pc[p] = "done"
          /\ result[p] = Nil
          /\ mounted[req[p].targetPath] = NotMounted

-----------------------------------------------------------------------------
(* Footprints.                                                             *)

\* the names of the operations call t has invoked
OpsOf(t) == {log[t][i].op : i \in 1..Len(log[t])}

C20_Footprint ==
    \A t \in Threads :
        /\ IsPublish(t) =>
              OpsOf(t) \subseteq {"getDevicePathBySerialID", "GetMountProvider",
                                 "ScanForAttach", "IsLikelyNotMountPointAttach",
                                 "FormatAndMount"}
        /\ IsUnpublish(t) =>
              OpsOf(t) \subseteq {"GetMountProvider", "IsLikelyNotMountPointDetach",
                                 "UnmountPath"}
        /\ IsIdentity(t) =>
              OpsOf(t) \subseteq {"GetMountProvider", "GetInstanceID", DefaultFor(t)}
        /\ req[t].op = "NodeGetCapabilities" => OpsOf(t) = {}

C20_Step ==
    \A tp \in DOMAIN mounted :
        /\ mounted[tp] = NotMounted /\ mounted'[tp] # NotMounted =>
              \E t \in Threads :
                  /\ IsPublish(t)
                  /\ req[t].targetPath = tp
                  /\ pc[t] = "mount"
                  /\ LastOp(t).op = "FormatAndMount"
        /\ mounted[tp] # NotMounted /\ mounted'[tp] = NotMounted =>
              \E t \in Threads :
                  /\ IsUnpublish(t)
                  /\ req[t].targetPath = tp
                  /\ pc[t] = "unmount"
                  /\ LastOp(t).op = "UnmountPath"
        /\ \A t \in Threads :
              req[t].op \in {"NodeGetId", "NodeGetInfo", "NodeGetCapabilities"} =>
                  mounted' = mounted

\* C20: a Publish invokes nothing but resolution, get-provider, scan, the
\* attach-variant check and format-and-mount; an Unpublish nothing but
\* get-provider, the detach-variant check and unmount; an identity query
\* nothing but get-provider, the instance-id lookup and the default server;
\* the capability query nothing. A target goes from not mounted to mounted
\* only in the format-and-mount step of a Publish on it, and from mounted to
\* not mounted only in the unmount step of an Unpublish on it.
C20_OperationFootprint == [][C20_Footprint' /\ C20_Step]_vars

\* an Unpublish has taken its target from mounted to not mounted, having
\* invoked get-provider, the detach-variant check and unmount, in that order
C20_Witness ==
    \E t \in Threads :
        /\ IsUnpublish(t)
        /\ pc[t] = "done"
        /\ result[t] = Nil
        /\ [i \in 1..Len(log[t]) |-> log[t][i].op] =
              <<"GetMountProvider", "IsLikelyNotMountPointDetach", "UnmountPath">>
        /\ log[t][3].before # NotMounted
        /\ mounted[req[t].targetPath] = NotMounted

=============================================================================
